---- MODULE Spec2Model ----
(***************************************************************************)
(* Blinkenlights WebApp (src/WebApp/script.js): the browser controller of  *)
(* a 16x16 LED matrix over Web Serial.  The file holds two scripts: the    *)
(* GIF/clock controller (lines 1-465) and the image/grid controller        *)
(* (lines 467-779).  The model follows JavaScript's run-to-completion      *)
(* scheduling: one action is one handler run from its start, or from the   *)
(* settling of the promise it awaits, to its next await or its end.        *)
(***************************************************************************)
EXTENDS Integers, Sequences, FiniteSets, TLC

(* ------------------------------------------------------------------ *)
(* Program constants                                                  *)
(* ------------------------------------------------------------------ *)
COLS == 16
ROWS == COLS
DIGIT_ROWS == 5
CLOCK_VERTICAL_OFFSET == 5

(* ------------------------------------------------------------------ *)
(* Bounds of the model                                                *)
(* ------------------------------------------------------------------ *)
\* clickConnect (and direct disconnect) invocations
MaxClicks == 3
\* other user events (image, clock, debug, send, gamma)
MaxEvents == 1
\* lines fed to the LineBreakTransformer, and characters per line
MaxLines == 2
MaxLineLen == 2

\* an absent handle (undefined or null); objects are numbered from 1
NULL == 0

(* ------------------------------------------------------------------ *)
(* paddedHex, gamma table                                             *)
(* ------------------------------------------------------------------ *)
HexChars == <<"0","1","2","3","4","5","6","7","8","9","a","b","c","d","e","f">>

UpperChar(ch) ==
    CASE ch = "a" -> "A" [] ch = "b" -> "B" [] ch = "c" -> "C"
      [] ch = "d" -> "D" [] ch = "e" -> "E" [] ch = "f" -> "F"
      [] OTHER -> ch

\* number.toString(16): the digits of n, most significant first, lowercase
RECURSIVE toString16(_)
toString16(n) ==
    IF n < 16 THEN <<HexChars[n + 1]>>
    ELSE Append(toString16(n \div 16), HexChars[(n % 16) + 1])

\* s.padStart(width, '0')
RECURSIVE padStart(_, _)
padStart(s, width) ==
    IF Len(s) >= width THEN s ELSE padStart(<<"0">> \o s, width)

toUpperCase(s) == [i \in 1..Len(s) |-> UpperChar(s[i])]

\* the text of a sequence of characters
RECURSIVE Text(_)
Text(s) == IF s = <<>> THEN "" ELSE s[1] \o Text(Tail(s))

\* a paddedHex that leaves the digits in lower case
paddedHexCharsLower(number, width) == padStart(toString16(number), width)

paddedHexChars(number, width) == toUpperCase(padStart(toString16(number), width))

paddedHex(number, width) == Text(paddedHexChars(number, width))

\* b^e for small naturals
RECURSIVE Pow(_, _)
Pow(b, e) == IF e = 0 THEN 1 ELSE b * Pow(b, e - 1)

\* Math.round(255 * (i/255)^gamma) for a whole gamma >= 1: i^g / 255^(g-1),
\* rounded; no value lies on a half, 255^(g-1) being odd.
GammaEntry(i, gamma) ==
    (2 * Pow(i, gamma) + Pow(255, gamma - 1)) \div (2 * Pow(255, gamma - 1))

\* gammaTable as updateGamma builds it; entry i is at index i + 1
MakeGammaTable(gamma) == [k \in 1..256 |-> GammaEntry(k - 1, gamma)]

\* gammaValueFromSlider(v) = MIN_GAMMA + v*(MAX_GAMMA-MIN_GAMMA)/100; the
\* slider positions 20, 60 and 100 give the whole gammas 1, 2 and 3
gammaValueFromSlider(v) == (50 + (v * 250) \div 100) \div 100

\* sliderValueFromGamma(g) = (g-MIN_GAMMA)*100/(MAX_GAMMA-MIN_GAMMA)
sliderValueFromGamma(g) == ((g * 100 - 50) * 100) \div 250

SliderValues == {20, 100}
DEFAULT_GAMMA == 2

(* ------------------------------------------------------------------ *)
(* Frame, Animation, sendAnimation                                    *)
(* ------------------------------------------------------------------ *)
\* row.fill(0): the number 0, which the destructuring ([r, g, b]) of the
\* Frame constructor cannot iterate
FILL0 == <<>>

IsTriple(cell) == Len(cell) = 3

\* one cell of a row: paddedHex(gammaTable[r]<<16 | gammaTable[g]<<8 | gammaTable[b], 6)
EncodeCell(cell, gt) ==
    paddedHex(gt[cell[1] + 1] * 65536 + gt[cell[2] + 1] * 256 + gt[cell[3] + 1], 6)

\* Array.from(row, cell => ...).join('')
RECURSIVE JoinCells(_, _)
JoinCells(row, gt) ==
    IF row = <<>> THEN "" ELSE EncodeCell(row[1], gt) \o JoinCells(Tail(row), gt)

\* the Frame constructor throws (TypeError) on a cell that is no [r, g, b]
FrameThrows(pixels) ==
    \E r \in 1..Len(pixels) : \E c \in 1..Len(pixels[r]) : ~IsTriple(pixels[r][c])

\* new Frame(ms, pixels)
Frame(ms, pixels, gt) ==
    [duration |-> ms, rows |-> [r \in 1..Len(pixels) |-> JoinCells(pixels[r], gt)]]

\* new Animation(ms)
Animation(ms) == [duration |-> ms, frames |-> <<>>]

\* an addFrame that puts the new frame first
addFrameFirst(anim, f) == [anim EXCEPT !.frames = <<f>> \o @]

\* animation.addFrame(f)
addFrame(anim, f) == [anim EXCEPT !.frames = Append(@, f)]

Line(verb, arg) == [verb |-> verb, arg |-> arg]

\* frame lines that stop one row short
FrameLinesShort(frame) ==
    <<Line("FRM", ToString(frame.duration))>>
        \o [r \in 1..(Len(frame.rows) - 1) |-> Line("RGB", frame.rows[r])]

\* the lines of one frame: FRM, then RGB for each row
FrameLines(frame) ==
    <<Line("FRM", ToString(frame.duration))>>
        \o [r \in 1..Len(frame.rows) |-> Line("RGB", frame.rows[r])]

RECURSIVE FramesLines(_)
FramesLines(frames) ==
    IF frames = <<>> THEN <<>> ELSE FrameLines(frames[1]) \o FramesLines(Tail(frames))

\* a sendAnimation that forgets the closing NXT
sendAnimationNoNXT(anim) ==
    <<Line("ANM", ToString(anim.duration))>> \o FramesLines(anim.frames)
        \o <<Line("DON", "")>>

\* the lines sendAnimation hands to writeToStream, in order
sendAnimation(anim) ==
    <<Line("ANM", ToString(anim.duration))>> \o FramesLines(anim.frames)
        \o <<Line("DON", ""), Line("NXT", "")>>

(* ------------------------------------------------------------------ *)
(* sendGifAnimation: GIF frames onto the shared pixel buffer           *)
(* ------------------------------------------------------------------ *)
Max(a, b) == IF a >= b THEN a ELSE b

\* gifFrame.patch: RGBA bytes, pixel k at offset 4k; the test patches carry
\* a base colour whose blue channel moves with k
Patch(gf) ==
    [i \in 1..(gf.width * gf.height * 4) |->
        LET k == (i - 1) \div 4
            ch == (i - 1) % 4
        IN  CASE ch = 0 -> gf.rgb[1]
              [] ch = 1 -> gf.rgb[2]
              [] ch = 2 -> (gf.rgb[3] + k) % 256
              [] OTHER  -> 255]

\* Array(ROWS).fill().map(() => Array(COLS)): every cell a hole
NewPixels == [r \in 1..ROWS |-> [c \in 1..COLS |-> FILL0]]

\* pixels[r+row_offset] is undefined once r+row_offset reaches ROWS: the
\* assignment into it throws
PatchThrows(gf) ==
    gf.height > 0 /\ gf.width > 0 /\ gf.top + gf.height > ROWS

\* pixels.forEach(row => row.fill(0)) and the two loops over the patch; a
\* column past the row's end lengthens the row
ApplyPatch(pixels, gf) ==
    LET bitmap == Patch(gf)
        inRows(R) == gf.width > 0 /\ R - 1 >= gf.top /\ R - 1 < gf.top + gf.height
        rowLen(R) == IF inRows(R) THEN Max(Len(pixels[R]), gf.left + gf.width)
                     ELSE Len(pixels[R])
        cell(R, C) ==
            IF inRows(R) /\ C - 1 >= gf.left /\ C - 1 < gf.left + gf.width
            THEN LET offset == ((R - 1 - gf.top) * gf.width + (C - 1 - gf.left)) * 4
                 IN  <<bitmap[offset + 1], bitmap[offset + 2], bitmap[offset + 3]>>
            ELSE FILL0
    IN  [R \in 1..Len(pixels) |-> [C \in 1..rowLen(R) |-> cell(R, C)]]

\* 'delay' in gifFrame ? gifFrame.delay : 1000
FrameDelay(gf) == IF gf.hasDelay THEN gf.delay ELSE 1000

\* frames that keep the shared buffer instead of its encoding: each is
\* encoded from the buffer as the last frame left it
RECURSIVE BuildFramesShared(_, _, _, _)
BuildFramesShared(frames, pixels, anim, gt) ==
    IF frames = <<>>
    THEN [ok |-> TRUE,
          anim |-> [anim EXCEPT !.frames =
                       [k \in 1..Len(@) |-> Frame(@[k].duration, pixels, gt)]]]
    ELSE IF PatchThrows(frames[1]) THEN [ok |-> FALSE, anim |-> anim]
    ELSE LET px == ApplyPatch(pixels, frames[1])
         IN  IF FrameThrows(px) THEN [ok |-> FALSE, anim |-> anim]
             ELSE BuildFramesShared(Tail(frames), px,
                                    addFrame(anim, Frame(FrameDelay(frames[1]), px, gt)), gt)

\* frames.forEach(...): the animation built, or the exception that ends it
RECURSIVE BuildFrames(_, _, _, _)
BuildFrames(frames, pixels, anim, gt) ==
    IF frames = <<>> THEN [ok |-> TRUE, anim |-> anim]
    ELSE IF PatchThrows(frames[1]) THEN [ok |-> FALSE, anim |-> anim]
    ELSE LET px == ApplyPatch(pixels, frames[1])
         IN  IF FrameThrows(px) THEN [ok |-> FALSE, anim |-> anim]
             ELSE BuildFrames(Tail(frames), px,
                              addFrame(anim, Frame(FrameDelay(frames[1]), px, gt)), gt)

NoLines == <<>>

\* an onload that sends 'ANM' before the frames are built
OnloadEager(hasBuffer, gif, gt) ==
    IF ~hasBuffer THEN [res |-> "noBuffer", n |-> 0, lines |-> NoLines]
    ELSE IF gif.w # ROWS \/ gif.h # COLS
    THEN [res |-> "badSize", n |-> 0, lines |-> NoLines]
    ELSE LET b == BuildFrames(gif.frames, NewPixels, Animation(600000), gt)
         IN  IF b.ok THEN [res |-> "send", n |-> Len(b.anim.frames),
                           lines |-> sendAnimation(b.anim)]
             ELSE [res |-> "frameFailed", n |-> 0,
                   lines |-> <<Line("ANM", ToString(b.anim.duration))>>]

\* oReq.onload of sendGifAnimation: what it does and the lines it sends
Onload(hasBuffer, gif, gt) ==
    IF ~hasBuffer THEN [res |-> "noBuffer", n |-> 0, lines |-> NoLines]
    ELSE IF gif.w # ROWS \/ gif.h # COLS
    THEN [res |-> "badSize", n |-> 0, lines |-> NoLines]
    ELSE LET b == BuildFrames(gif.frames, NewPixels, Animation(600000), gt)
         IN  IF b.ok THEN [res |-> "send", n |-> Len(b.anim.frames),
                           lines |-> sendAnimation(b.anim)]
             ELSE [res |-> "frameFailed", n |-> 0, lines |-> NoLines]

\* the images of the page
GifFrame(hasDelay, delay, top, left, width, height, rgb) ==
    [hasDelay |-> hasDelay, delay |-> delay, top |-> top, left |-> left,
     width |-> width, height |-> height, rgb |-> rgb]

FullFrame(hasDelay, delay, rgb) == GifFrame(hasDelay, delay, 0, 0, COLS, ROWS, rgb)

Images == {"two", "empty", "big", "part"}

Gif(img) ==
    CASE img = "two"   -> [w |-> 16, h |-> 16,
                           frames |-> <<FullFrame(TRUE, 70, <<255, 255, 255>>),
                                        FullFrame(FALSE, 0, <<0, 16, 200>>)>>]
      [] img = "empty" -> [w |-> 16, h |-> 16, frames |-> <<>>]
      [] img = "big"   -> [w |-> 32, h |-> 32,
                           frames |-> <<GifFrame(TRUE, 100, 0, 0, 32, 32, <<1, 2, 3>>)>>]
      [] OTHER         -> [w |-> 16, h |-> 16,
                           frames |-> <<FullFrame(TRUE, 100, <<9, 9, 9>>),
                                        GifFrame(TRUE, 50, 4, 4, 2, 2, <<255, 0, 0>>)>>]

NoImage == "none"

(* ------------------------------------------------------------------ *)
(* The digit clock                                                     *)
(* ------------------------------------------------------------------ *)
Digits ==
    << <<<<1,1,1>>, <<1,0,1>>, <<1,0,1>>, <<1,0,1>>, <<1,1,1>>>>,
       <<<<0,1,0>>, <<1,1,0>>, <<0,1,0>>, <<0,1,0>>, <<1,1,1>>>>,
       <<<<1,1,0>>, <<0,0,1>>, <<0,1,0>>, <<1,0,0>>, <<1,1,1>>>>,
       <<<<1,1,1>>, <<0,0,1>>, <<0,1,1>>, <<0,0,1>>, <<1,1,1>>>>,
       <<<<1,0,1>>, <<1,0,1>>, <<1,1,1>>, <<0,0,1>>, <<0,0,1>>>>,
       <<<<1,1,1>>, <<1,0,0>>, <<1,1,0>>, <<0,0,1>>, <<1,1,0>>>>,
       <<<<1,1,1>>, <<1,0,0>>, <<1,1,1>>, <<1,0,1>>, <<1,1,1>>>>,
       <<<<1,1,1>>, <<0,0,1>>, <<0,1,0>>, <<0,1,0>>, <<0,1,0>>>>,
       <<<<1,1,1>>, <<1,0,1>>, <<1,1,1>>, <<1,0,1>>, <<1,1,1>>>>,
       <<<<1,1,1>>, <<1,0,1>>, <<1,1,1>>, <<0,0,1>>, <<1,1,1>>>> >>

fillRowIterator(color) == [c \in 1..COLS |-> color]

bitmapRowIterator(row, fg, bg) == [i \in 1..Len(row) |-> IF row[i] = 1 THEN fg ELSE bg]

\* a digit row that draws the colon in the even glyph rows
digitRowIteratorEven(row, h10, h1, m10, m1, fg, bg, colon) ==
    LET center == IF row % 2 = 0 THEN colon ELSE bg
    IN  bitmapRowIterator(Digits[h10 + 1][row + 1], fg, bg) \o <<bg>>
          \o bitmapRowIterator(Digits[h1 + 1][row + 1], fg, bg)
          \o <<center, center>>
          \o bitmapRowIterator(Digits[m10 + 1][row + 1], fg, bg) \o <<bg>>
          \o bitmapRowIterator(Digits[m1 + 1][row + 1], fg, bg)

\* row is the glyph row, from 0
digitRowIterator(row, h10, h1, m10, m1, fg, bg, colon) ==
    LET center == IF row % 2 = 1 THEN colon ELSE bg
    IN  bitmapRowIterator(Digits[h10 + 1][row + 1], fg, bg) \o <<bg>>
          \o bitmapRowIterator(Digits[h1 + 1][row + 1], fg, bg)
          \o <<center, center>>
          \o bitmapRowIterator(Digits[m10 + 1][row + 1], fg, bg) \o <<bg>>
          \o bitmapRowIterator(Digits[m1 + 1][row + 1], fg, bg)

digitalClockIterator(h10, h1, m10, m1, fg, bg, colon) ==
    [r \in 1..CLOCK_VERTICAL_OFFSET |-> fillRowIterator(bg)]
      \o [r \in 1..DIGIT_ROWS |-> digitRowIterator(r - 1, h10, h1, m10, m1, fg, bg, colon)]
      \o [r \in 1..(ROWS - (CLOCK_VERTICAL_OFFSET + DIGIT_ROWS)) |-> fillRowIterator(bg)]

\* the animation drawClockMinute builds at hours:minutes
drawClockMinute(hours, minutes, fg, bg, colon, gt) ==
    LET h10 == hours \div 10
        h1  == hours % 10
        m10 == minutes \div 10
        m1  == minutes % 10
    IN  addFrame(
          addFrame(Animation(60000),
                   Frame(500, digitalClockIterator(h10, h1, m10, m1, fg, bg, colon), gt)),
          Frame(500, digitalClockIterator(h10, h1, m10, m1, fg, bg, bg), gt))

\* times of day the clock button is pressed at
ClockTimes == {<<14, 5>>}


(* ------------------------------------------------------------------ *)
(* The image script: sendImage, sendGrid, updateColorCorrection        *)
(* ------------------------------------------------------------------ *)
\* the images of the image script
PixelArt == {"art"}

\* ctx.getImageData(0, 0, COLS, ROWS).data after drawImage(img): RGBA bytes
Bitmap(img) ==
    [k \in 0..(COLS * ROWS * 4 - 1) |->
        LET px == k \div 4
        IN  CASE k % 4 = 0 -> px
              [] k % 4 = 1 -> 255 - px
              [] k % 4 = 2 -> (px % COLS) * 17
              [] OTHER     -> 255]

\* one pixel of sendImage: (gammaTable[r]<<16 | gammaTable[g]<<8 |
\* gammaTable[b]).toString(16).padStart(6, "0")
ImagePixel(bitmap, offset, gt) ==
    padStart(toString16(gt[bitmap[offset] + 1] * 65536
                        + gt[bitmap[offset + 1] + 1] * 256
                        + gt[bitmap[offset + 2] + 1]), 6)

\* pix.join('').toUpperCase() of row r
RECURSIVE ImageRow(_, _, _, _)
ImageRow(bitmap, r, c, gt) ==
    IF c = COLS THEN ""
    ELSE Text(toUpperCase(ImagePixel(bitmap, (r * COLS + c) * 4, gt)))
            \o ImageRow(bitmap, r, c + 1, gt)

\* the lines sendImage(img) hands to writeToStream, in order
sendImage(img, gt) ==
    <<Line("ANM", "600000"), Line("FRM", "1000")>>
        \o [r \in 1..ROWS |-> Line("RGB", ImageRow(Bitmap(img), r - 1, 0, gt))]
        \o <<Line("DON", ""), Line("NXT", "")>>

\* px.join('') of the checkboxes i .. i+COLS-1
RECURSIVE GridRow(_, _, _)
GridRow(checked, i, c) ==
    IF c = COLS THEN ""
    ELSE (IF i + c \in checked THEN "FFFFFF" ELSE "000000") \o GridRow(checked, i, c + 1)

\* the lines sendGrid() hands to writeToStream, the checkboxes in checked
\* being ticked
sendGrid(checked) ==
    <<Line("ANM", "600000"), Line("FRM", "1000")>>
        \o [r \in 1..ROWS |-> Line("RGB", GridRow(checked, (r - 1) * COLS, 0))]
        \o <<Line("DON", ""), Line("NXT", "")>>

\* the checkboxes the model ticks and unticks
ToggleCells == {0, 17}

\* Math.round(2.55 * v) for v in 0..100: the double 2.55 * v is rounded half
\* up; at 50 and 90 the double product lies just below the half
\* (127.49999999999999, 229.49999999999997) and is rounded down
Round255(v) == IF v \in {50, 90} THEN (255 * v) \div 100 ELSE (255 * v + 50) \div 100

\* (Math.round(2.55*v)).toString(16).padStart('0', 2): a target length of
\* '0' is 0, so nothing is padded
ccHex(v) == toString16(Round255(v))

\* the line of updateColorCorrection for the sliders red, green, blue
updateColorCorrection(sliders) ==
    Line("CLC", Text(toUpperCase(ccHex(sliders[1]) \o ccHex(sliders[2])
                                 \o ccHex(sliders[3]))))

\* the positions the colour sliders take
CCValues == {5, 100}

\* the positions of the image script's gamma slider, 100/position whole
ImageSliderValues == {50, 100}

\* invGamma of the image script's updateGamma
invGamma(v) == 100 \div v

(* ------------------------------------------------------------------ *)
(* Tables of the values the handlers compute                           *)
(* ------------------------------------------------------------------ *)
\* gammaTable for each gamma the sliders of the model give
GammaTables ==
    [g \in {gammaValueFromSlider(v) : v \in SliderValues}
            \cup {DEFAULT_GAMMA} \cup {invGamma(v) : v \in ImageSliderValues} |->
        MakeGammaTable(g)]

GammaOf(gt) == CHOOSE g \in DOMAIN GammaTables : GammaTables[g] = gt

\* Onload(TRUE, Gif(img), gammaTable), evaluated once per image and table
OnloadAt ==
    [img \in Images, g \in DOMAIN GammaTables |-> Onload(TRUE, Gif(img), GammaTables[g])]

\* drawClockMinute(white, black, blue), evaluated once per time and table
ClockAt ==
    [tm \in ClockTimes, g \in DOMAIN GammaTables |->
        drawClockMinute(tm[1], tm[2], <<255, 255, 255>>, <<0, 0, 0>>, <<0, 0, 255>>,
                        GammaTables[g])]

\* sendImage(img), evaluated once per image and table
ImageAt ==
    [img \in PixelArt, g \in DOMAIN GammaTables |-> sendImage(img, GammaTables[g])]

\* sendGrid(), evaluated once per set of ticked checkboxes
GridAt == [checked \in SUBSET ToggleCells |-> sendGrid(checked)]


(* ------------------------------------------------------------------ *)
(* LineBreakTransformer                                                *)
(* ------------------------------------------------------------------ *)
Alphabet == {"a", "\r", "\n"}

\* d occurs in s at position i
OccursAt(s, d, i) == i + Len(d) - 1 <= Len(s) /\ SubSeq(s, i, i + Len(d) - 1) = d

\* s.split(d): the segments between the occurrences of d, found from the left
RECURSIVE split(_, _)
split(s, d) ==
    IF \E i \in 1..Len(s) : OccursAt(s, d, i)
    THEN LET i == CHOOSE i \in 1..Len(s) :
                     OccursAt(s, d, i) /\ \A j \in 1..(i - 1) : ~OccursAt(s, d, j)
         IN  <<SubSeq(s, 1, i - 1)>> \o split(SubSeq(s, i + Len(d), Len(s)), d)
    ELSE <<s>>

\* lines.join(d)
RECURSIVE join(_, _)
join(lines, d) ==
    IF Len(lines) = 0 THEN <<>>
    ELSE IF Len(lines) = 1 THEN lines[1]
    ELSE lines[1] \o d \o join(Tail(lines), d)

\* a transform that splits the chunk alone and forgets the buffered fragment
transformChunkOnly(cont, chunk, d) ==
    LET lines == split(chunk, d)
    IN  [container |-> lines[Len(lines)],
         enqueue |-> SubSeq(lines, 1, Len(lines) - 1)]

\* transform(chunk, controller): the new container and the lines enqueued
transform(cont, chunk, d) ==
    LET lines == split(cont \o chunk, d)
    IN  [container |-> lines[Len(lines)],
         enqueue |-> SubSeq(lines, 1, Len(lines) - 1)]

\* a flush that enqueues nothing when the buffer is empty
flushNonEmpty(cont) == IF cont = <<>> THEN <<>> ELSE <<cont>>

\* flush(controller): the lines enqueued
flush(cont) == <<cont>>

\* the texts of at most n characters
RECURSIVE TextsUpTo(_)
TextsUpTo(n) ==
    IF n = 0 THEN {<<>>}
    ELSE LET shorter == TextsUpTo(n - 1)
         IN  shorter \cup {Append(s, ch) : s \in shorter, ch \in Alphabet}

DelimiterFree(s, d) == \A i \in 1..Len(s) : ~OccursAt(s, d, i)

\* the sequences of 1..n members of S
RECURSIVE SeqsUpTo(_, _)
SeqsUpTo(S, n) ==
    IF n = 1 THEN {<<x>> : x \in S}
    ELSE LET shorter == SeqsUpTo(S, n - 1)
         IN  shorter \cup {Append(q, x) : q \in shorter, x \in S}

(* ------------------------------------------------------------------ *)
(* State                                                               *)
(* ------------------------------------------------------------------ *)
Ports == {1, 2}

\* the two scripts of the file
Scripts == {"gif", "image"}

VARIABLES
    script,         \* the script the page runs
    ledCBs,         \* image script: the ticked checkboxes, by index
    ccSliders,      \* image script: red, green and blue correction sliders
    port,           \* let port: a member of Ports, or NULL
    reader,         \* let reader: the connection whose reader it is, or NULL
    inputDone,      \* let inputDone: the connection whose inbound pipe it is
    outputDone,     \* let outputDone: the connection whose outbound pipe it is
    outputStream,   \* let outputStream: the connection whose encoder it is
    gammaTable,     \* let gammaTable
    currentImage,   \* let currentImage: an image, or NoImage
    uiConnected,    \* butConnect reads 'Disconnect'
    portState,      \* SerialPort state: closed, opening, opened, closing
    pWLock,         \* port.writable is locked by the pipe of this connection
    pRLock,         \* port.readable is locked by the pipe of this connection
    streams,        \* the streams each connect created, by connection
    tasks,          \* the clickConnect (or disconnect) invocations
    xhr,            \* sendGifAnimation requests in flight, per image
    out,            \* the lines handed to writer.write, in order
    thrown,         \* the functions an exception has left
    nev,            \* user events other than connect clicks so far
    lbDelim,        \* LineBreakTransformer: the delimiter it splits on
    lbLines,        \* the lines the device sent
    lbRest,         \* their joined text not yet delivered
    container,      \* this.container
    enqueued,       \* the lines handed to controller.enqueue, in order
    lbPhase,        \* open, or flushed
    lbCut,          \* a chunk has ended between the '\r' and '\n' of a delimiter
    calcFn,         \* a function applied on its own: its name, or "none"
    calcIn,         \* its arguments
    calcOut         \* what it returned

handles == <<port, reader, inputDone, outputDone, outputStream>>
vars == <<script, ledCBs, ccSliders, port, reader, inputDone, outputDone, outputStream, gammaTable,
          currentImage, uiConnected, portState, pWLock, pRLock, streams,
          tasks, xhr, out, thrown, nev,
          lbDelim, lbLines, lbRest, container, enqueued, lbPhase, lbCut,
          calcFn, calcIn, calcOut>>

\* the state of the controller, and of the line transformer
ctl == <<script, ledCBs, ccSliders, port, reader, inputDone, outputDone, outputStream, gammaTable,
         currentImage, uiConnected, portState, pWLock, pRLock, streams,
         tasks, xhr, out, thrown, nev>>
lb == <<lbDelim, lbLines, lbRest, container, enqueued, lbPhase, lbCut>>
calc == <<calcFn, calcIn, calcOut>>
\* what the handlers the two scripts share leave alone
rest == <<script, ledCBs, ccSliders, lb, calc>>

\* the page after DOMContentLoaded: the gif script's initGamma sets the
\* slider from DEFAULT_GAMMA; the image script's sliders are taken at
\* their maximum, no checkbox ticked
InitCtl(sc) ==
    /\ script = sc
    /\ ledCBs = {}
    /\ ccSliders = <<100, 100, 100>>
    /\ port = NULL /\ reader = NULL /\ inputDone = NULL
    /\ outputDone = NULL /\ outputStream = NULL
    /\ gammaTable = IF sc = "gif"
                    THEN GammaTables[gammaValueFromSlider(sliderValueFromGamma(DEFAULT_GAMMA))]
                    ELSE GammaTables[invGamma(100)]
    /\ currentImage = NoImage
    /\ uiConnected = FALSE
    /\ portState = [p \in Ports |-> "closed"]
    /\ pWLock = [p \in Ports |-> NULL]
    /\ pRLock = [p \in Ports |-> NULL]
    /\ streams = <<>>
    /\ tasks = <<>>
    /\ xhr = [i \in Images |-> 0]
    /\ out = <<>>
    /\ thrown = {}
    /\ nev = 0

\* new LineBreakTransformer(), before any chunk
InitLb(d, lines) ==
    /\ lbDelim = d
    /\ lbLines = lines
    /\ lbRest = join(lines, d)
    /\ container = <<>>
    /\ enqueued = <<>>
    /\ lbPhase = "open"
    /\ lbCut = FALSE

\* the delimiter of each script's LineBreakTransformer (lines 309, 678)
DelimiterOf(sc) == IF sc = "gif" THEN <<"\n">> ELSE <<"\r", "\n">>

\* no function is being applied on its own
InitCalc(args) ==
    /\ calcFn = "none"
    /\ calcIn = args
    /\ calcOut = <<>>

Init == \E sc \in Scripts : InitCtl(sc) /\ InitLb(DelimiterOf(sc), <<>>) /\ InitCalc(<<>>)

(* ------------------------------------------------------------------ *)
(* writeToStream                                                       *)
(* ------------------------------------------------------------------ *)
\* outputStream.getWriter() throws: no stream, or its writer is taken
GetWriterThrows(os, strs) == os = NULL \/ strs[os].encLocked

\* the number of the next call sequence
NextBatch == IF out = <<>> THEN 1 ELSE out[Len(out)].batch + 1

\* the lines of one call sequence as the log keeps them: with the function
\* that sent them, the stream, and for an animation its number of frames
TaggedAt(lines, src, os, n, batch) ==
    [i \in 1..Len(lines) |->
        [verb |-> lines[i].verb, arg |-> lines[i].arg,
         batch |-> batch, src |-> src, conn |-> os, n |-> n]]

Tagged(lines, src, os, n) == TaggedAt(lines, src, os, n, NextBatch)

\* writeToStream(...lines) from function src, the stream being free
writeToStream(lines, src, n) == out \o Tagged(lines, src, outputStream, n)

Task(fn, pc, obj, via, steps) ==
    [fn |-> fn, pc |-> pc, obj |-> obj, via |-> via, steps |-> steps, res |-> ""]

\* sendGifAnimation(img): one more request in flight
sendGifAnimation(img) == [xhr EXCEPT ![img] = @ + 1]

\* clickConnect after await connect(): toggleUIConnected(true) and, in
\* the gif script, the request for the animation of the current image
AfterConnect ==
    /\ uiConnected' = TRUE
    /\ xhr' = IF script = "gif" /\ currentImage # NoImage
              THEN sendGifAnimation(currentImage) ELSE xhr

\* the image script's clickConnect after connect(): sendImage(currentImage)
\* or sendGrid(), as the lines of the log
AfterConnectLines(os, batch) ==
    IF script = "gif" THEN <<>>
    ELSE IF currentImage # NoImage
    THEN TaggedAt(ImageAt[currentImage, GammaOf(gammaTable)], "sendImage", os, 1, batch)
    ELSE TaggedAt(GridAt[ledCBs], "sendGrid", os, 1, batch)

(* ------------------------------------------------------------------ *)
(* connect                                                             *)
(* ------------------------------------------------------------------ *)
SetPc(t, pc, obj, res) == [tasks EXCEPT ![t].pc = pc, ![t].obj = obj, ![t].res = res]

\* requestPort or port.open rejects.  The gif script's connect returns
\* through its catch and the caller goes on to toggleUIConnected(true); the
\* image script's connect has no try and the rejection leaves clickConnect
ConnectFailed(t) ==
    /\ IF script = "gif"
       THEN /\ tasks' = SetPc(t, "done", NULL, "openFailed")
            /\ AfterConnect
            /\ UNCHANGED thrown
       ELSE /\ tasks' = SetPc(t, "threw", NULL, "threw")
            /\ thrown' = thrown \cup {"connect"}
            /\ UNCHANGED <<uiConnected, xhr>>
    /\ UNCHANGED <<reader, inputDone, outputDone, outputStream, gammaTable,
                   currentImage, pWLock, pRLock, streams, out, nev>>

\* await port.open({ baudRate: 115200 }) on the port just assigned: an open
\* of a port that is not closed rejects at once
OpenCall(t, p) ==
    /\ port' = p
    /\ IF portState[p] # "closed"
       THEN /\ ConnectFailed(t)
            /\ UNCHANGED portState
       ELSE /\ portState' = [portState EXCEPT ![p] = "opening"]
            /\ tasks' = SetPc(t, "open", p, "")
            /\ UNCHANGED <<reader, inputDone, outputDone, outputStream, gammaTable,
                           currentImage, uiConnected, pWLock, pRLock, streams,
                           xhr, out, thrown, nev>>

\* clickConnect with no port: connect() up to its first await, getPorts()
\* in the gif script and requestPort() in the image script
ConnectStart ==
    /\ tasks' = Append(tasks, Task("connect",
                                   IF script = "gif" THEN "getPorts" ELSE "requestPort",
                                   NULL, "click", <<>>))
    /\ UNCHANGED <<port, reader, inputDone, outputDone, outputStream, gammaTable,
                   currentImage, uiConnected, portState, pWLock, pRLock, streams,
                   xhr, out, thrown, nev>>

\* getPorts() resolves with the ports the page was granted
GotPorts(t) ==
    /\ UNCHANGED rest
    /\ tasks[t].pc = "getPorts"
    /\ \E ports \in SUBSET Ports :
         IF Cardinality(ports) = 1
         THEN OpenCall(t, CHOOSE p \in ports : TRUE)
         ELSE /\ tasks' = SetPc(t, "requestPort", NULL, "")
              /\ UNCHANGED <<port, reader, inputDone, outputDone, outputStream,
                             gammaTable, currentImage, uiConnected, portState,
                             pWLock, pRLock, streams, xhr, out, thrown, nev>>

\* requestPort() settles: the user picks a port, or dismisses the chooser
RequestPortSettled(t) ==
    /\ UNCHANGED rest
    /\ tasks[t].pc = "requestPort"
    /\ \E choice \in Ports \cup {NULL} :
         IF choice = NULL
         THEN /\ ConnectFailed(t)
              /\ UNCHANGED <<port, portState>>
         ELSE OpenCall(t, choice)

\* the streams of a connection as lines 130-139 create them
NewStreams(prt, outPipe, inPipe, attached) ==
    [port |-> prt, encLocked |-> FALSE, encState |-> "open", outPipe |-> outPipe,
     inPipe |-> inPipe,
     inState |-> IF attached THEN "readable" ELSE "none",
     rdLocked |-> attached,
     loop |-> IF attached THEN "reading" ELSE "none",
     loopOn |-> IF attached THEN Len(streams) + 1 ELSE NULL]

\* the lines connect writes once outputStream is set: line 133, and lines
\* 540-541 with the line of updateColorCorrection()
ConnectLines ==
    IF script = "gif"
    THEN <<Line("", ""), Line("RST", ""), Line("VER", ""), Line("PWR", "")>>
    ELSE <<Line("", ""), Line("RST", ""), Line("VER", ""),
           updateColorCorrection(ccSliders)>>

\* port.open() settles; on success connect runs on to its end with the
\* global port as it is now
OpenSettled(t) ==
    /\ UNCHANGED rest
    /\ tasks[t].pc = "open"
    /\ \E ok \in BOOLEAN :
         LET p == tasks[t].obj
             c == Len(streams) + 1
             pst == [portState EXCEPT ![p] = IF ok THEN "opened" ELSE "closed"]
             opened == port # NULL /\ pst[port] = "opened"
             wOK == opened /\ pWLock[port] = NULL
             rOK == opened /\ pRLock[port] = NULL
         IN  /\ portState' = pst
             /\ IF ~ok
                THEN /\ ConnectFailed(t)
                     /\ UNCHANGED port
                ELSE IF port = NULL
                THEN \* port.writable of null
                     /\ tasks' = SetPc(t, "threw", NULL, "threw")
                     /\ thrown' = thrown \cup {"connect"}
                     /\ UNCHANGED <<port, reader, inputDone, outputDone, outputStream,
                                    gammaTable, currentImage, uiConnected, pWLock,
                                    pRLock, streams, xhr, out, nev>>
                ELSE /\ outputDone' = c
                     /\ outputStream' = c
                     /\ out' = out \o Tagged(ConnectLines, "connect", c, 0)
                                   \o (IF opened THEN AfterConnectLines(c, NextBatch + 1)
                                       ELSE <<>>)
                     /\ pWLock' = IF wOK THEN [pWLock EXCEPT ![port] = c] ELSE pWLock
                     /\ streams' = Append(streams,
                            NewStreams(port, IF wOK THEN "active" ELSE "rejected",
                                       IF ~opened THEN "none"
                                       ELSE IF rOK THEN "active" ELSE "rejected",
                                       opened))
                     /\ UNCHANGED <<port, gammaTable, currentImage, nev>>
                     /\ IF ~opened
                        THEN \* port.readable is null: pipeTo of null
                             /\ tasks' = SetPc(t, "threw", NULL, "threw")
                             /\ thrown' = thrown \cup {"connect"}
                             /\ UNCHANGED <<reader, inputDone, uiConnected, pRLock, xhr>>
                        ELSE /\ inputDone' = c
                             /\ reader' = c
                             /\ pRLock' = IF rOK THEN [pRLock EXCEPT ![port] = c]
                                          ELSE pRLock
                             /\ tasks' = SetPc(t, "done", NULL, "connected")
                             /\ AfterConnect
                             /\ UNCHANGED thrown

(* ------------------------------------------------------------------ *)
(* disconnect                                                          *)
(* ------------------------------------------------------------------ *)
\* await port.close(): the call throws on no port, and rejects unless the
\* port is opened with both its streams unlocked
PortCloseCall(prt, pst) ==
    IF prt = NULL \/ pst[prt] # "opened" \/ pWLock[prt] # NULL \/ pRLock[prt] # NULL
    THEN [pc |-> "threw", obj |-> NULL, steps |-> <<>>, portState |-> pst]
    ELSE [pc |-> "portClose", obj |-> prt, steps |-> <<"closePort">>,
          portState |-> [pst EXCEPT ![prt] = "closing"]]

\* disconnect from 'if (outputStream)' to its next await
WriterCloseCall(os, strs, prt, pst) ==
    IF os = NULL
    THEN [streams |-> strs] @@ PortCloseCall(prt, pst)
    ELSE IF GetWriterThrows(os, strs)
    THEN [pc |-> "threw", obj |-> NULL, steps |-> <<>>, portState |-> pst,
          streams |-> strs]
    ELSE [pc |-> "writerClose", obj |-> os, steps |-> <<"closeWriter">>,
          portState |-> pst,
          streams |-> [strs EXCEPT ![os].encLocked = TRUE, ![os].encState = "closing"]]

\* task t of tks moved on by the outcome r of a call above
Moved(tks, t, r, steps) ==
    [tks EXCEPT ![t].pc = r.pc, ![t].obj = r.obj,
                ![t].steps = @ \o steps \o r.steps,
                ![t].res = IF r.pc = "threw" THEN "threw" ELSE ""]

Threw(tks, t, steps) ==
    [tks EXCEPT ![t].pc = "threw", ![t].obj = NULL, ![t].steps = @ \o steps,
                ![t].res = "threw"]

\* disconnect() from its first line to its first await
DisconnectStart(via) ==
    LET t == Len(tasks) + 1
        new == Append(tasks, Task("disconnect", "start", NULL, via, <<>>))
    IN  IF GetWriterThrows(outputStream, streams)
        THEN \* writeToStream('RST') throws
             /\ tasks' = Threw(new, t, <<>>)
             /\ thrown' = thrown \cup {"disconnect"}
             /\ UNCHANGED <<port, reader, inputDone, outputDone, outputStream,
                            gammaTable, currentImage, uiConnected, portState, pWLock,
                            pRLock, streams, xhr, out, nev>>
        ELSE /\ out' = writeToStream(<<Line("RST", "")>>, "disconnect", 0)
             /\ UNCHANGED <<port, reader, inputDone, outputDone, outputStream,
                            gammaTable, currentImage, uiConnected, pWLock, pRLock,
                            xhr, nev>>
             /\ IF reader # NULL
                THEN IF ~streams[reader].rdLocked \/ streams[reader].inState = "errored"
                     THEN \* reader.cancel() rejects: released reader, errored stream
                          /\ tasks' = Threw(new, t, <<"RST">>)
                          /\ thrown' = thrown \cup {"disconnect"}
                          /\ UNCHANGED <<portState, streams>>
                     ELSE /\ tasks' = [new EXCEPT ![t].pc = "cancel", ![t].obj = reader,
                                                  ![t].steps = <<"RST", "cancelReader">>]
                          /\ streams' = [streams EXCEPT ![reader].inState = "closed"]
                          /\ UNCHANGED <<portState, thrown>>
                ELSE LET r == WriterCloseCall(outputStream, streams, port, portState)
                     IN  /\ tasks' = Moved(new, t, r, <<"RST">>)
                         /\ streams' = r.streams
                         /\ portState' = r.portState
                         /\ thrown' = IF r.pc = "threw" THEN thrown \cup {"disconnect"}
                                      ELSE thrown

\* reader.cancel() resolves: the reads it ended have been answered first;
\* the inbound pipe it tore down rejects and frees port.readable
CancelSettled(t) ==
    /\ UNCHANGED rest
    /\ tasks[t].pc = "cancel"
    /\ LET r == tasks[t].obj
           p == streams[r].port
           wasActive == streams[r].inPipe = "active"
       IN  /\ \A c \in 1..Len(streams) :
                  ~(streams[c].loop = "reading" /\ streams[c].loopOn = r)
           /\ streams' = IF wasActive THEN [streams EXCEPT ![r].inPipe = "rejected"]
                         ELSE streams
           /\ pRLock' = IF wasActive /\ pRLock[p] = r THEN [pRLock EXCEPT ![p] = NULL]
                        ELSE pRLock
           /\ IF inputDone = NULL
              THEN \* inputDone.catch of null
                   /\ tasks' = Threw(tasks, t, <<>>)
                   /\ thrown' = thrown \cup {"disconnect"}
              ELSE /\ tasks' = SetPc(t, "inputDone", inputDone, "")
                   /\ UNCHANGED thrown
           /\ UNCHANGED <<port, reader, inputDone, outputDone, outputStream,
                          gammaTable, currentImage, uiConnected, portState, pWLock,
                          xhr, out, nev>>

\* inputDone.catch(() => {}) settles, the rejection swallowed: the reader
\* handles are cleared and the writer closed
InputDoneSettled(t) ==
    /\ UNCHANGED rest
    /\ tasks[t].pc = "inputDone"
    /\ streams[tasks[t].obj].inPipe = "rejected"
    /\ LET r == WriterCloseCall(outputStream, streams, port, portState)
       IN  /\ reader' = NULL
           /\ inputDone' = NULL
           /\ tasks' = Moved(tasks, t, r, <<"swallow", "clearReader">>)
           /\ streams' = r.streams
           /\ portState' = r.portState
           /\ thrown' = IF r.pc = "threw" THEN thrown \cup {"disconnect"} ELSE thrown
           /\ UNCHANGED <<port, outputDone, outputStream, gammaTable, currentImage,
                          uiConnected, pWLock, pRLock, xhr, out, nev>>

\* writer.close() resolves once the outbound pipe has drained the encoder;
\* the pipe then closes and frees port.writable
WriterClosed(t) ==
    /\ UNCHANGED rest
    /\ tasks[t].pc = "writerClose"
    /\ LET e == tasks[t].obj
           p == streams[e].port
       IN  /\ streams[e].outPipe = "active"
           /\ streams' = [streams EXCEPT ![e].encState = "closed",
                                         ![e].outPipe = "fulfilled"]
           /\ pWLock' = IF pWLock[p] = e THEN [pWLock EXCEPT ![p] = NULL] ELSE pWLock
           /\ tasks' = SetPc(t, "outputDone", outputDone, "")
           /\ UNCHANGED <<port, reader, inputDone, outputDone, outputStream,
                          gammaTable, currentImage, uiConnected, portState, pRLock,
                          xhr, out, thrown, nev>>

\* await outputDone settles: the writer handles are cleared and the port closed
OutputDoneSettled(t) ==
    /\ UNCHANGED rest
    /\ tasks[t].pc = "outputDone"
    /\ LET d == tasks[t].obj
       IN  /\ d = NULL \/ streams[d].outPipe # "active"
           /\ IF d # NULL /\ streams[d].outPipe = "rejected"
              THEN /\ tasks' = Threw(tasks, t, <<>>)
                   /\ thrown' = thrown \cup {"disconnect"}
                   /\ UNCHANGED <<outputStream, outputDone, portState>>
              ELSE LET r == PortCloseCall(port, portState)
                   IN  /\ outputStream' = NULL
                       /\ outputDone' = NULL
                       /\ tasks' = Moved(tasks, t, r, <<"clearOutput">>)
                       /\ portState' = r.portState
                       /\ thrown' = IF r.pc = "threw" THEN thrown \cup {"disconnect"}
                                    ELSE thrown
           /\ UNCHANGED <<port, reader, inputDone, gammaTable, currentImage,
                          uiConnected, pWLock, pRLock, streams, xhr, out, nev>>

\* a disconnect that ends without clearing port
PortClosedKeepingPort(t) ==
    /\ UNCHANGED rest
    /\ tasks[t].pc = "portClose"
    /\ portState' = [portState EXCEPT ![tasks[t].obj] = "closed"]
    /\ uiConnected' = IF tasks[t].via = "click" THEN FALSE ELSE uiConnected
    /\ tasks' = [tasks EXCEPT ![t].pc = "done", ![t].obj = NULL,
                              ![t].steps = @ \o <<"clearPort">>,
                              ![t].res = "completed"]
    /\ UNCHANGED <<port, reader, inputDone, outputDone, outputStream, gammaTable,
                   currentImage, pWLock, pRLock, streams, xhr, out, thrown, nev>>

\* port.close() resolves: port = null, and clickConnect goes on to
\* toggleUIConnected(false)
PortClosed(t) ==
    /\ UNCHANGED rest
    /\ tasks[t].pc = "portClose"
    /\ portState' = [portState EXCEPT ![tasks[t].obj] = "closed"]
    /\ port' = NULL
    /\ uiConnected' = IF tasks[t].via = "click" THEN FALSE ELSE uiConnected
    /\ tasks' = [tasks EXCEPT ![t].pc = "done", ![t].obj = NULL,
                              ![t].steps = @ \o <<"clearPort">>,
                              ![t].res = "completed"]
    /\ UNCHANGED <<reader, inputDone, outputDone, outputStream, gammaTable,
                   currentImage, pWLock, pRLock, streams, xhr, out, thrown, nev>>

\* a click on butConnect
ClickConnect ==
    /\ UNCHANGED rest
    /\ Len(tasks) < MaxClicks
    /\ IF port # NULL THEN DisconnectStart("click") ELSE ConnectStart

\* disconnect() called as a function, whatever the state
CallDisconnect ==
    /\ UNCHANGED rest
    /\ Len(tasks) < MaxClicks
    /\ DisconnectStart("call")

(* ------------------------------------------------------------------ *)
(* readLoop                                                            *)
(* ------------------------------------------------------------------ *)
\* reader.read() resolves with a line: it is logged and the loop reads
\* again, from the global reader as it is now
ReadValue(c) ==
    /\ UNCHANGED rest
    /\ streams[c].loop = "reading"
    /\ LET on == streams[c].loopOn
       IN  /\ streams[on].inState = "readable"
           /\ streams[on].inPipe = "active"
    /\ IF reader = NULL \/ ~streams[reader].rdLocked
          \/ streams[reader].inState = "errored"
       THEN /\ streams' = [streams EXCEPT ![c].loop = "failed"]
            /\ thrown' = thrown \cup {"readLoop"}
       ELSE /\ streams' = [streams EXCEPT ![c].loopOn = reader]
            /\ UNCHANGED thrown
    /\ UNCHANGED <<port, reader, inputDone, outputDone, outputStream, gammaTable,
                   currentImage, uiConnected, portState, pWLock, pRLock, tasks,
                   xhr, out, nev>>

\* reader.read() resolves with done: reader.releaseLock() on the global reader
ReadDone(c) ==
    /\ UNCHANGED rest
    /\ streams[c].loop = "reading"
    /\ streams[streams[c].loopOn].inState = "closed"
    /\ IF reader = NULL
       THEN /\ streams' = [streams EXCEPT ![c].loop = "failed"]
            /\ thrown' = thrown \cup {"readLoop"}
       ELSE /\ streams' = [streams EXCEPT ![c].loop = "exited",
                                          ![reader].rdLocked = FALSE]
            /\ UNCHANGED thrown
    /\ UNCHANGED <<port, reader, inputDone, outputDone, outputStream, gammaTable,
                   currentImage, uiConnected, portState, pWLock, pRLock, tasks,
                   xhr, out, nev>>

\* the inbound stream of connection s errors (device lost, framing or
\* overrun error): its pipe rejects, and the read every loop awaits on it
\* rejects, which readLoop does not catch
ReadError(s) ==
    /\ UNCHANGED rest
    /\ streams[s].inState = "readable"
    /\ streams[s].inPipe = "active"
    /\ streams' = [c \in 1..Len(streams) |->
                      LET a == IF c = s
                               THEN [streams[c] EXCEPT !.inState = "errored",
                                                       !.inPipe = "rejected"]
                               ELSE streams[c]
                      IN  IF a.loop = "reading" /\ a.loopOn = s
                          THEN [a EXCEPT !.loop = "failed"] ELSE a]
    /\ pRLock' = IF pRLock[streams[s].port] = s
                 THEN [pRLock EXCEPT ![streams[s].port] = NULL] ELSE pRLock
    /\ thrown' = IF \E c \in 1..Len(streams) :
                       streams[c].loop = "reading" /\ streams[c].loopOn = s
                 THEN thrown \cup {"readLoop"} ELSE thrown
    /\ UNCHANGED <<port, reader, inputDone, outputDone, outputStream, gammaTable,
                   currentImage, uiConnected, portState, pWLock, tasks,
                   xhr, out, nev>>

(* ------------------------------------------------------------------ *)
(* The other handlers                                                  *)
(* ------------------------------------------------------------------ *)
\* one call sequence of handler src: it throws at its first writeToStream,
\* or writes all its lines
Send(lines, src, n) ==
    IF GetWriterThrows(outputStream, streams)
    THEN /\ thrown' = thrown \cup {src}
         /\ UNCHANGED out
    ELSE /\ out' = writeToStream(lines, src, n)
         /\ UNCHANGED thrown

\* debugButton.onclick
DebugClick ==
    /\ UNCHANGED rest
    /\ nev < MaxEvents
    /\ nev' = nev + 1
    /\ IF port # NULL THEN Send(<<Line("DBG", "")>>, "debug", 0)
       ELSE UNCHANGED <<out, thrown>>
    /\ UNCHANGED <<port, reader, inputDone, outputDone, outputStream, gammaTable,
                   currentImage, uiConnected, portState, pWLock, pRLock, streams,
                   tasks, xhr>>

\* the commands typed into commandTxt
Commands == {"VER"}

\* clickSend
ClickSend ==
    /\ UNCHANGED rest
    /\ script = "gif"
    /\ nev < MaxEvents
    /\ nev' = nev + 1
    /\ \E cmd \in Commands :
         IF port # NULL THEN Send(<<Line(cmd, "")>>, "clickSend", 0)
         ELSE UNCHANGED <<out, thrown>>
    /\ UNCHANGED <<port, reader, inputDone, outputDone, outputStream, gammaTable,
                   currentImage, uiConnected, portState, pWLock, pRLock, streams,
                   tasks, xhr>>

\* clockButton.onclick: drawClockMinute, white on black with a blue colon
ClockClick ==
    /\ UNCHANGED rest
    /\ script = "gif"
    /\ nev < MaxEvents
    /\ nev' = nev + 1
    /\ \E tm \in ClockTimes :
         LET anim == ClockAt[tm, GammaOf(gammaTable)]
         IN  Send(sendAnimation(anim), "sendAnimation", Len(anim.frames))
    /\ UNCHANGED <<port, reader, inputDone, outputDone, outputStream, gammaTable,
                   currentImage, uiConnected, portState, pWLock, pRLock, streams,
                   tasks, xhr>>

\* img.onclick of initPixelArtImage
ImageClick(img) ==
    /\ UNCHANGED rest
    /\ script = "gif"
    /\ nev < MaxEvents
    /\ nev' = nev + 1
    /\ xhr' = IF port # NULL THEN sendGifAnimation(img) ELSE xhr
    /\ currentImage' = img
    /\ UNCHANGED <<port, reader, inputDone, outputDone, outputStream, gammaTable,
                   uiConnected, portState, pWLock, pRLock, streams, tasks, out,
                   thrown>>

\* gammaSlider.onchange: updateGamma
updateGamma(v) ==
    /\ UNCHANGED rest
    /\ script = "gif"
    /\ nev < MaxEvents
    /\ nev' = nev + 1
    /\ gammaTable' = GammaTables[gammaValueFromSlider(v)]
    /\ xhr' = IF currentImage # NoImage THEN sendGifAnimation(currentImage) ELSE xhr
    /\ UNCHANGED <<port, reader, inputDone, outputDone, outputStream, currentImage,
                   uiConnected, portState, pWLock, pRLock, streams, tasks, out,
                   thrown>>

\* img.onclick of initPixelArt (image script)
PixelArtClick(img) ==
    /\ UNCHANGED <<script, ledCBs, ccSliders, lb, calc>>
    /\ script = "image"
    /\ nev < MaxEvents
    /\ nev' = nev + 1
    /\ IF port # NULL
       THEN IF GetWriterThrows(outputStream, streams)
            THEN \* sendImage throws before 'currentImage = img'
                 /\ thrown' = thrown \cup {"sendImage"}
                 /\ UNCHANGED <<out, currentImage>>
            ELSE /\ out' = writeToStream(ImageAt[img, GammaOf(gammaTable)],
                                         "sendImage", 1)
                 /\ currentImage' = img
                 /\ UNCHANGED thrown
       ELSE /\ currentImage' = img
            /\ UNCHANGED <<out, thrown>>
    /\ UNCHANGED <<port, reader, inputDone, outputDone, outputStream, gammaTable,
                   uiConnected, portState, pWLock, pRLock, streams, tasks, xhr>>

\* the change listener of checkbox i (image script): the box has toggled
CheckboxChange(i) ==
    /\ UNCHANGED <<script, ccSliders, lb, calc>>
    /\ script = "image"
    /\ nev < MaxEvents
    /\ nev' = nev + 1
    /\ ledCBs' = IF i \in ledCBs THEN ledCBs \ {i} ELSE ledCBs \cup {i}
    /\ IF port # NULL
       THEN IF GetWriterThrows(outputStream, streams)
            THEN \* sendGrid throws before 'currentImage = null'
                 /\ thrown' = thrown \cup {"sendGrid"}
                 /\ UNCHANGED <<out, currentImage>>
            ELSE /\ out' = writeToStream(GridAt[ledCBs'], "sendGrid", 1)
                 /\ currentImage' = NoImage
                 /\ UNCHANGED thrown
       ELSE /\ currentImage' = NoImage
            /\ UNCHANGED <<out, thrown>>
    /\ UNCHANGED <<port, reader, inputDone, outputDone, outputStream, gammaTable,
                   uiConnected, portState, pWLock, pRLock, streams, tasks, xhr>>

\* gammaSlider.onchange of the image script: updateGamma
updateGammaImage(v) ==
    /\ UNCHANGED <<script, ledCBs, ccSliders, lb, calc>>
    /\ script = "image"
    /\ nev < MaxEvents
    /\ nev' = nev + 1
    /\ gammaTable' = GammaTables[invGamma(v)]
    /\ IF currentImage # NoImage
       THEN Send(ImageAt[currentImage, invGamma(v)], "sendImage", 1)
       ELSE UNCHANGED <<out, thrown>>
    /\ UNCHANGED <<port, reader, inputDone, outputDone, outputStream, currentImage,
                   uiConnected, portState, pWLock, pRLock, streams, tasks, xhr>>

\* onchange of colour slider k (image script): updateColorCorrection
ColorCorrectionChange(k, v) ==
    /\ UNCHANGED <<script, ledCBs, lb, calc>>
    /\ script = "image"
    /\ nev < MaxEvents
    /\ nev' = nev + 1
    /\ ccSliders' = [ccSliders EXCEPT ![k] = v]
    /\ Send(<<updateColorCorrection(ccSliders')>>, "updateColorCorrection", 0)
    /\ UNCHANGED <<port, reader, inputDone, outputDone, outputStream, gammaTable,
                   currentImage, uiConnected, portState, pWLock, pRLock, streams,
                   tasks, xhr>>

\* oReq.onload of a sendGifAnimation request for img
XhrLoad(img) ==
    /\ UNCHANGED rest
    /\ xhr[img] > 0
    /\ xhr' = [xhr EXCEPT ![img] = @ - 1]
    /\ \E hasBuffer \in BOOLEAN :
         LET r == IF hasBuffer THEN OnloadAt[img, GammaOf(gammaTable)]
                  ELSE Onload(FALSE, Gif(img), gammaTable)
         IN  IF r.res = "send" THEN Send(r.lines, "sendAnimation", r.n)
             ELSE /\ out' = out \o Tagged(r.lines, "sendAnimation", outputStream, r.n)
                  /\ thrown' = IF r.res = "frameFailed"
                               THEN thrown \cup {"sendGifAnimation"} ELSE thrown
    /\ UNCHANGED <<port, reader, inputDone, outputDone, outputStream, gammaTable,
                   currentImage, uiConnected, portState, pWLock, pRLock, streams,
                   tasks, nev>>

(* ------------------------------------------------------------------ *)
(* The controller                                                      *)
(* ------------------------------------------------------------------ *)
Next ==
    \/ ClickConnect
    \/ \E t \in 1..Len(tasks) : GotPorts(t)
    \/ \E t \in 1..Len(tasks) : RequestPortSettled(t)
    \/ \E t \in 1..Len(tasks) : OpenSettled(t)
    \/ \E t \in 1..Len(tasks) : CancelSettled(t)
    \/ \E t \in 1..Len(tasks) : InputDoneSettled(t)
    \/ \E t \in 1..Len(tasks) : WriterClosed(t)
    \/ \E t \in 1..Len(tasks) : OutputDoneSettled(t)
    \/ \E t \in 1..Len(tasks) : PortClosed(t)
    \/ \E c \in 1..Len(streams) : ReadValue(c)
    \/ \E c \in 1..Len(streams) : ReadDone(c)
    \/ \E c \in 1..Len(streams) : ReadError(c)
    \/ DebugClick
    \/ ClickSend
    \/ ClockClick
    \/ \E img \in Images : ImageClick(img)
    \/ \E v \in SliderValues : updateGamma(v)
    \/ \E img \in Images : XhrLoad(img)
    \/ \E img \in PixelArt : PixelArtClick(img)
    \/ \E i \in ToggleCells : CheckboxChange(i)
    \/ \E v \in ImageSliderValues : updateGammaImage(v)
    \/ \E k \in 1..3 : \E v \in CCValues : ColorCorrectionChange(k, v)

Spec == Init /\ [][Next]_vars

\* the controller with disconnect() also called directly
NextCall == Next \/ CallDisconnect

SpecCall == Init /\ [][NextCall]_vars

(* ------------------------------------------------------------------ *)
(* The line transformer fed the device's lines in chunks               *)
(* ------------------------------------------------------------------ *)
\* the stream delivers the next k characters as one chunk
Transform(k) ==
    /\ lbPhase = "open"
    /\ k <= Len(lbRest)
    /\ LET chunk == SubSeq(lbRest, 1, k)
           r == transform(container, chunk, lbDelim)
       IN  /\ container' = r.container
           /\ enqueued' = enqueued \o r.enqueue
           /\ lbRest' = SubSeq(lbRest, k + 1, Len(lbRest))
           /\ lbCut' = (lbCut \/ (/\ lbDelim = <<"\r", "\n">>
                                  /\ k < Len(lbRest)
                                  /\ chunk[k] = "\r" /\ lbRest[k + 1] = "\n"))
    /\ UNCHANGED <<lbDelim, lbLines, lbPhase>>
    /\ UNCHANGED <<ctl, calc>>

\* the stream ends
Flush ==
    /\ lbPhase = "open"
    /\ lbRest = <<>>
    /\ enqueued' = enqueued \o flush(container)
    /\ lbPhase' = "flushed"
    /\ UNCHANGED <<lbDelim, lbLines, lbRest, container, lbCut>>
    /\ UNCHANGED <<ctl, calc>>

InitLines ==
    \E sc \in Scripts :
        /\ InitCtl(sc)
        /\ \E lines \in SeqsUpTo({s \in TextsUpTo(MaxLineLen) :
                                      DelimiterFree(s, DelimiterOf(sc))}, MaxLines) :
              InitLb(DelimiterOf(sc), lines)
        /\ InitCalc(<<>>)

NextLines ==
    \/ \E k \in 1..(MaxLines * (MaxLineLen + 2)) : Transform(k)
    \/ Flush

SpecLines == InitLines /\ [][NextLines]_vars

(* ------------------------------------------------------------------ *)
(* Properties of the animation protocol                                *)
(* ------------------------------------------------------------------ *)
\* the functions that write an animation
AnimSources == {"sendAnimation", "sendImage", "sendGrid"}

\* the positions of the log where an animation begins
AnimStarts ==
    {i \in 1..Len(out) :
        /\ out[i].src \in AnimSources
        /\ i = 1 \/ out[i - 1].batch # out[i].batch}

\* the verb at offset k of an animation of F frames
ExpectedVerb(k, F) ==
    IF k = 0 THEN "ANM"
    ELSE IF k = F * (1 + ROWS) + 1 THEN "DON"
    ELSE IF k = F * (1 + ROWS) + 2 THEN "NXT"
    ELSE IF (k - 1) % (1 + ROWS) = 0 THEN "FRM"
    ELSE "RGB"

\* C1: an animation of F frames is written as exactly 1 + F*(1+16) + 2
\* lines whose verbs are, in order, ANM, then FRM and 16 RGB per frame,
\* then DON, then NXT.
C1_AnimationLineSequence ==
    \A i \in AnimStarts :
        LET F == out[i].n
            cnt == 1 + F * (1 + ROWS) + 2
        IN  /\ i + cnt - 1 <= Len(out)
            /\ \A k \in 0..(cnt - 1) :
                  /\ out[i + k].batch = out[i].batch
                  /\ out[i + k].verb = ExpectedVerb(k, F)
            /\ i + cnt <= Len(out) => out[i + cnt].batch # out[i].batch

\* a two-frame animation has been written
C1_Witness ==
    \E i \in AnimStarts : out[i].n = 2 /\ out[i + 2 * (1 + ROWS) + 2].verb = "NXT"

\* C6: every line of an animation but its NXT is directly followed by a
\* line of the same animation: no line of another call sequence is ever
\* written between an animation's ANM and its NXT.
C6_AnimationUninterrupted ==
    \A i \in 1..Len(out) :
        (out[i].src \in AnimSources /\ out[i].verb # "NXT")
            => (i < Len(out) /\ out[i + 1].batch = out[i].batch)

\* an animation has been written between two other call sequences
C6_Witness ==
    \E i \in AnimStarts :
        /\ i > 1
        /\ \E j \in (i + 1)..(Len(out) - 1) :
              /\ out[j].batch = out[i].batch
              /\ out[j].verb = "NXT"
              /\ out[j + 1].src \notin AnimSources

\* sendGifAnimation's load handler gives up on this image: wrong size, or a
\* frame that cannot be built
GivesUp(img) ==
    \/ Gif(img).w # ROWS
    \/ Gif(img).h # COLS
    \/ OnloadAt[img, GammaOf(gammaTable)].res = "frameFailed"

\* C9: a load handler that finds the wrong size, or fails while building a
\* frame, writes no line at all.
C9_AllOrNothing ==
    [][\A img \in Images :
          (xhr'[img] < xhr[img] /\ GivesUp(img)) => out' = out]_vars

\* a frame of an image of the right size could not be built while a
\* connection was there to write to
C9_Witness ==
    /\ "sendGifAnimation" \in thrown
    /\ outputStream # NULL
    /\ ~streams[outputStream].encLocked

\* C10: no animation without frames is written: ANM is never directly
\* followed by DON.
C10_NoEmptyAnimation ==
    \A i \in 1..(Len(out) - 1) :
        ~(out[i].src \in AnimSources /\ out[i].verb = "ANM"
          /\ out[i + 1].verb = "DON")

(* ------------------------------------------------------------------ *)
(* Properties of the line transformer                                  *)
(* ------------------------------------------------------------------ *)
\* C2: for N >= 1 delimiter-free lines joined by the delimiter, once all
\* chunks have been transformed and flush has run, the lines enqueued are
\* exactly the N lines in their order, however the text was cut into
\* chunks, for the delimiter of either script.
C2_ChunkingIndependent == lbPhase = "flushed" => enqueued = lbLines

\* two lines have come through although a chunk ended inside a '\r\n'
C2_Witness ==
    /\ lbPhase = "flushed"
    /\ lbCut
    /\ Len(lbLines) = 2
    /\ enqueued = lbLines

(* ------------------------------------------------------------------ *)
(* Properties of connect and disconnect                                *)
(* ------------------------------------------------------------------ *)
AllCleared ==
    /\ port = NULL /\ reader = NULL /\ inputDone = NULL
    /\ outputDone = NULL /\ outputStream = NULL

\* the step starts a disconnect()
StartsDisconnect ==
    /\ Len(tasks') = Len(tasks) + 1
    /\ tasks'[Len(tasks')].fn = "disconnect"

\* C3: disconnect() called with no connection (no port, no reader, no
\* output stream) raises nothing and changes nothing.
C3_DisconnectWithoutConnection ==
    [][(StartsDisconnect /\ port = NULL /\ reader = NULL /\ outputStream = NULL)
          => (/\ tasks'[Len(tasks')].res # "threw"
              /\ thrown' = thrown
              /\ UNCHANGED <<handles, uiConnected, portState, streams, out>>)]_vars

\* C4: when connect gives up because the port could not be opened, and no
\* port is open or being opened, the controller is left disconnected: the
\* button does not read 'Disconnect' and no handle is set.
C4_OpenFailureLeavesDisconnected ==
    [][\A t \in 1..Len(tasks) :
          (/\ tasks[t].res # "openFailed"
           /\ tasks'[t].res = "openFailed"
           /\ \A p \in Ports : portState'[p] = "closed")
             => (~uiConnected' /\ AllCleared')]_vars

\* C5: at most one port is open or being opened at any time, and at most
\* one connect is waiting for its port to open.
C5_AtMostOneConnection ==
    /\ Cardinality({p \in Ports : portState[p] # "closed"}) <= 1
    /\ Cardinality({t \in 1..Len(tasks) :
                       tasks[t].fn = "connect" /\ tasks[t].pc = "open"}) <= 1

\* C7: at most one readLoop reads from a reader, and a readLoop that has
\* ended, by done or by an error, has released the lock of its reader.
C7_ReadLoopReleasesLock ==
    /\ \A r \in 1..Len(streams) :
          Cardinality({c \in 1..Len(streams) :
                          streams[c].loop = "reading" /\ streams[c].loopOn = r}) <= 1
    /\ \A c \in 1..Len(streams) :
          streams[c].loop \in {"exited", "failed"}
              => ~streams[streams[c].loopOn].rdLocked

\* the first position of step x in steps, or 0
RECURSIVE Pos(_, _)
Pos(steps, x) ==
    IF steps = <<>> THEN 0
    ELSE IF steps[1] = x THEN 1
    ELSE IF Pos(Tail(steps), x) = 0 THEN 0
    ELSE 1 + Pos(Tail(steps), x)

Before(steps, x, y) == Pos(steps, y) # 0 => (Pos(steps, x) # 0 /\ Pos(steps, x) < Pos(steps, y))

DisconnectSteps ==
    <<"RST", "cancelReader", "swallow", "clearReader", "closeWriter",
      "clearOutput", "closePort", "clearPort">>

IsPrefix(a, b) == Len(a) <= Len(b) /\ SubSeq(b, 1, Len(a)) = a

\* the steps this step adds to disconnect t
NewSteps(t) ==
    IF t <= Len(tasks)
    THEN SubSeq(tasks'[t].steps, Len(tasks[t].steps) + 1, Len(tasks'[t].steps))
    ELSE tasks'[t].steps

TestTables ==
    {GammaTables[g] : g \in DOMAIN GammaTables}
        \cup {[k \in 1..256 |-> 256 - k], [k \in 1..256 |-> (k - 1) \div 16]}

TestColours == {<<0, 0, 0>>, <<255, 255, 255>>, <<1, 2, 3>>, <<0, 16, 200>>}

TestCells == {<<1, 1>>, <<ROWS, COLS>>, <<6, 8>>}

\* a grid of colour bg with the cell at (row, column) cell of colour fg
GridOf(bg, fg, cell) ==
    [r \in 1..ROWS |-> [c \in 1..COLS |-> IF <<r, c>> = cell THEN fg ELSE bg]]

\* the grid sendImage reads from the bitmap of img
BitmapGrid(img) ==
    [r \in 1..ROWS |-> [c \in 1..COLS |->
        LET offset == ((r - 1) * COLS + (c - 1)) * 4
        IN  <<Bitmap(img)[offset], Bitmap(img)[offset + 1], Bitmap(img)[offset + 2]>>]]

\* new Frame(ms, pixels) on the grid and table of calcIn
ApplyFrame ==
    /\ calcFn = "none"
    /\ calcIn.kind = "grid"
    /\ calcFn' = "Frame"
    /\ calcOut' = Frame(500, calcIn.grid, calcIn.gt)
    /\ UNCHANGED <<ctl, lb, calcIn>>

\* sendImage(img) with the table of calcIn: the arguments of its RGB lines
ApplySendImage ==
    /\ calcFn = "none"
    /\ calcIn.kind = "image"
    /\ calcFn' = "sendImage"
    /\ calcOut' = LET lines == sendImage(calcIn.img, calcIn.gt)
                      rgb == SelectSeq(lines, LAMBDA l : l.verb = "RGB")
                  IN  [duration |-> 1000, rows |-> [r \in 1..Len(rgb) |-> rgb[r].arg]]
    /\ UNCHANGED <<ctl, lb, calcIn>>

InitFrame ==
    /\ InitCtl("gif")
    /\ InitLb(DelimiterOf("gif"), <<>>)
    /\ \E gt \in TestTables :
          \/ \E bg \in TestColours, fg \in TestColours, cell \in TestCells :
                InitCalc([kind |-> "grid", grid |-> GridOf(bg, fg, cell), gt |-> gt])
          \/ \E img \in PixelArt :
                InitCalc([kind |-> "image", img |-> img, grid |-> BitmapGrid(img),
                          gt |-> gt])

NextFrame == ApplyFrame \/ ApplySendImage

SpecFrame == InitFrame /\ [][NextFrame]_vars

HexUpper == <<"0","1","2","3","4","5","6","7","8","9","A","B","C","D","E","F">>

\* the six upper-case hex digits of v, most significant first
Hex6(v) ==
    HexUpper[((v \div 1048576) % 16) + 1] \o HexUpper[((v \div 65536) % 16) + 1]
        \o HexUpper[((v \div 4096) % 16) + 1] \o HexUpper[((v \div 256) % 16) + 1]
        \o HexUpper[((v \div 16) % 16) + 1] \o HexUpper[(v % 16) + 1]

\* the 96 characters the cells of a row must encode to
RECURSIVE ExpectedRow(_, _)
ExpectedRow(row, gt) ==
    IF row = <<>> THEN ""
    ELSE Hex6(gt[row[1][1] + 1] * 65536 + gt[row[1][2] + 1] * 256 + gt[row[1][3] + 1])
            \o ExpectedRow(Tail(row), gt)

\* C11: the Frame built from a 16x16 grid of RGB triples and a gamma table
\* has 16 rows, top to bottom, each of 96 characters; the c-th group of six
\* of row r is the zero-padded upper-case hex of gammaTable[R]<<16 |
\* gammaTable[G]<<8 | gammaTable[B] of cell (r, c).  The rows sendImage
\* writes are built the same.
C11_FrameEncoding ==
    calcFn \in {"Frame", "sendImage"} =>
        /\ Len(calcOut.rows) = ROWS
        /\ \A r \in 1..ROWS :
              /\ Len(calcOut.rows[r]) = 6 * COLS
              /\ calcOut.rows[r] = ExpectedRow(calcIn.grid[r], calcIn.gt)

\* a Frame has been built from a grid whose cells need leading zeros
C11_Witness ==
    /\ calcFn = "Frame"
    /\ calcIn.grid[1][1] = <<1, 2, 3>>
    /\ calcIn.grid[6][8] = <<0, 16, 200>>
    /\ calcIn.gt = GammaTables[1]

(* ------------------------------------------------------------------ *)
(* The onload handler of sendGifAnimation applied to decoded GIFs      *)
(* ------------------------------------------------------------------ *)
\* decoded frames: two that cover the canvas, a 2x2 patch inside it, one
\* that is a column wider and one that is a row taller than the canvas
TestFrames ==
    {FullFrame(TRUE, 70, <<255, 255, 255>>),
     FullFrame(FALSE, 0, <<0, 16, 200>>),
     GifFrame(TRUE, 50, 4, 4, 2, 2, <<255, 0, 0>>),
     GifFrame(TRUE, 100, 0, 0, COLS + 1, ROWS, <<1, 2, 3>>),
     GifFrame(TRUE, 100, 0, 0, COLS, ROWS + 1, <<1, 2, 3>>)}

\* GIFs whose logical screen is 16x16, of one or two frames
TestGifs ==
    {[w |-> ROWS, h |-> COLS, frames |-> fs] :
        fs \in {<<f>> : f \in TestFrames}
                 \cup {<<f, g>> : f \in TestFrames, g \in TestFrames}}

\* oReq.onload with the response calcIn.gif and the table calcIn.gt
ApplyOnload ==
    /\ calcFn = "none"
    /\ calcIn.kind = "gif"
    /\ calcFn' = "onload"
    /\ calcOut' = Onload(TRUE, calcIn.gif, calcIn.gt)
    /\ UNCHANGED <<ctl, lb, calcIn>>

InitGif ==
    /\ InitCtl("gif")
    /\ InitLb(DelimiterOf("gif"), <<>>)
    /\ \E gif \in TestGifs, gt \in TestTables :
          InitCalc([kind |-> "gif", gif |-> gif, gt |-> gt])

NextGif == ApplyOnload

SpecGif == InitGif /\ [][NextGif]_vars

\* C12: a grid that is not exactly 16x16 (here: a patch that leaves the
\* canvas) is rejected before it is encoded: every RGB line written has 96
\* characters and every frame written has 16 rows.
C12_OnlyCanvasSizedFrames ==
    calcFn = "onload" =>
        /\ \A i \in 1..Len(calcOut.lines) :
              calcOut.lines[i].verb = "RGB" => Len(calcOut.lines[i].arg) = 6 * COLS
        /\ Cardinality({i \in 1..Len(calcOut.lines) : calcOut.lines[i].verb = "RGB"})
              = ROWS * calcOut.n

(* ------------------------------------------------------------------ *)
(* The grids of drawClockMinute                                        *)
(* ------------------------------------------------------------------ *)
\* (fg, bg, colon) colours: the ones of the clock button, a colon of the
\* foreground colour, a colon of the background colour
ClockColours ==
    {<<<<255, 255, 255>>, <<0, 0, 0>>, <<0, 0, 255>>>>,
     <<<<1, 2, 3>>, <<0, 16, 200>>, <<1, 2, 3>>>>,
     <<<<255, 0, 0>>, <<0, 0, 0>>, <<0, 0, 0>>>>}

\* the two grids drawClockMinute hands to the Frame constructor, for the
\* digits h10, h1, m10, m1 of calcIn
ApplyClock ==
    /\ calcFn = "none"
    /\ calcIn.kind = "clock"
    /\ calcFn' = "clock"
    /\ calcOut' =
          LET d == calcIn.digits
          IN  <<digitalClockIterator(d[1], d[2], d[3], d[4],
                                     calcIn.fg, calcIn.bg, calcIn.colon),
                digitalClockIterator(d[1], d[2], d[3], d[4],
                                     calcIn.fg, calcIn.bg, calcIn.bg)>>
    /\ UNCHANGED <<ctl, lb, calcIn>>

InitClock ==
    /\ InitCtl("gif")
    /\ InitLb(DelimiterOf("gif"), <<>>)
    /\ \E digits \in (0..9) \X (0..9) \X (0..9) \X (0..9), col \in ClockColours :
          InitCalc([kind |-> "clock", digits |-> digits,
                    fg |-> col[1], bg |-> col[2], colon |-> col[3]])

NextClock == ApplyClock

SpecClock == InitClock /\ [][NextClock]_vars

\* C13: for all digits and colours whose colon differs from the
\* background, each clock grid has 16 rows of 16 cells, and the two grids
\* of drawClockMinute differ in exactly the colon cells: columns 7 and 8
\* of grid rows 6 and 8 (glyph rows 1 and 3), counted from 0.
C13_ClockGrids ==
    (calcFn = "clock" /\ calcIn.colon # calcIn.bg) =>
        /\ \A k \in 1..2 :
              /\ Len(calcOut[k]) = ROWS
              /\ \A r \in 1..ROWS : Len(calcOut[k][r]) = COLS
        /\ calcOut[1] # calcOut[2]
        /\ \A r \in 1..ROWS, c \in 1..COLS :
              (calcOut[1][r][c] # calcOut[2][r][c])
                  <=> (r - 1 \in {6, 8} /\ c - 1 \in {7, 8})

\* the grids of 14:05 with a colon that differs from the background
C13_Witness ==
    /\ calcFn = "clock"
    /\ calcIn.digits = <<1, 4, 0, 5>>
    /\ calcIn.colon # calcIn.bg
    /\ calcOut[1][7][8] = calcIn.colon
    /\ calcOut[2][7][8] = calcIn.bg

(* ------------------------------------------------------------------ *)
(* updateColorCorrection applied to slider settings                    *)
(* ------------------------------------------------------------------ *)
\* slider settings: one slider anywhere in 0..100, the others at one end
TestSliders ==
    {[base EXCEPT ![k] = v] :
        base \in {<<0, 0, 0>>, <<100, 100, 100>>}, k \in 1..3, v \in 0..100}

\* updateColorCorrection() with the sliders of calcIn: the line it writes
ApplyColorCorrection ==
    /\ calcFn = "none"
    /\ calcIn.kind = "sliders"
    /\ calcFn' = "updateColorCorrection"
    /\ calcOut' = updateColorCorrection(calcIn.sliders)
    /\ UNCHANGED <<ctl, lb, calcIn>>

InitCC ==
    /\ InitCtl("image")
    /\ InitLb(DelimiterOf("image"), <<>>)
    /\ \E sliders \in TestSliders : InitCalc([kind |-> "sliders", sliders |-> sliders])

NextCC == ApplyColorCorrection

SpecCC == InitCC /\ [][NextCC]_vars

\* the two upper-case hex digits of v
Hex2(v) == HexUpper[((v \div 16) % 16) + 1] \o HexUpper[(v % 16) + 1]

\* C14: for every slider setting the line of updateColorCorrection is
\* 'CLC' with exactly six upper-case hex characters, two for each of red,
\* green and blue, the zero-padded hex of Math.round(2.55 * value).
C14_ColorCorrectionLine ==
    calcFn = "updateColorCorrection" =>
        /\ calcOut.verb = "CLC"
        /\ Len(calcOut.arg) = 6
        /\ calcOut.arg = Hex2(Round255(calcIn.sliders[1]))
                            \o Hex2(Round255(calcIn.sliders[2]))
                            \o Hex2(Round255(calcIn.sliders[3]))

\* position of the FRM line of the k-th frame among the lines of an animation
FrmAt(k) == 2 + (k - 1) * (ROWS + 1)

InsideCanvas(gf) == gf.top + gf.height <= ROWS /\ gf.left + gf.width <= COLS

\* the characters of canvas row r (from 1), columns c..COLS, for a frame
\* drawn on a canvas cleared to zero: the patch colour inside the patch,
\* 000000 outside
RECURSIVE CanvasRow(_, _, _, _)
CanvasRow(gf, r, c, gt) ==
    IF c > COLS THEN ""
    ELSE LET inside == /\ r - 1 >= gf.top /\ r - 1 < gf.top + gf.height
                       /\ c - 1 >= gf.left /\ c - 1 < gf.left + gf.width
             offset == ((r - 1 - gf.top) * gf.width + (c - 1 - gf.left)) * 4
             bitmap == Patch(gf)
         IN  (IF inside
              THEN Hex6(gt[bitmap[offset + 1] + 1] * 65536
                        + gt[bitmap[offset + 2] + 1] * 256 + gt[bitmap[offset + 3] + 1])
              ELSE "000000") \o CanvasRow(gf, r, c + 1, gt)

\* C16: every decoded frame of a 16x16 GIF whose patch lies inside the
\* canvas, a smaller patch included, becomes a full 16x16 Frame drawn on a
\* grid cleared to zero: the cells of the patch carry the patch colours,
\* all other cells are 000000, and nothing is carried over from the frame
\* before.
C16_PatchOnClearedGrid ==
    (calcFn = "onload" /\ \A k \in 1..Len(calcIn.gif.frames) :
                             InsideCanvas(calcIn.gif.frames[k])) =>
        /\ calcOut.res = "send"
        /\ calcOut.n = Len(calcIn.gif.frames)
        /\ \A k \in 1..Len(calcIn.gif.frames), r \in 1..ROWS :
              calcOut.lines[FrmAt(k) + r] =
                  Line("RGB", CanvasRow(calcIn.gif.frames[k], r, 1, calcIn.gt))

(* ------------------------------------------------------------------ *)
(* Buffering of the line transformer                                   *)
(* ------------------------------------------------------------------ *)
\* the text the stream delivers, and the part of it delivered so far
LbInput == join(lbLines, lbDelim)

LbDelivered == SubSeq(LbInput, 1, Len(LbInput) - Len(lbRest))

\* the number of occurrences of d in s
Occurrences(s, d) == Cardinality({i \in 1..Len(s) : OccursAt(s, d, i)})

WriteSources ==
    {"debug", "clickSend", "sendAnimation", "sendImage", "sendGrid",
     "updateColorCorrection"}

\* a disconnect that threw in its first statement, writeToStream('RST')
RstThrew(t) ==
    tasks[t].fn = "disconnect" /\ tasks[t].pc = "threw" /\ tasks[t].steps = <<>>

\* C18: writeToStream is only called while an output stream is attached
\* and not being closed: no call of it finds outputStream absent or locked
\* by the closing writer, so none throws in getWriter().
C18_WriteOnlyWhileAttached ==
    /\ thrown \cap WriteSources = {}
    /\ \A t \in 1..Len(tasks) : ~RstThrew(t)

\* the lines written to output stream c, in order
ConnLines(c) == SelectSeq(out, LAMBDA l : l.conn = c)

\* the first lines of connection c are '', RST, VER, PWR
OpensWithReset(c) ==
    LET ls == ConnLines(c)
    IN  /\ Len(ls) >= 4
        /\ <<ls[1].verb, ls[2].verb, ls[3].verb, ls[4].verb>> = <<"", "RST", "VER", "PWR">>
        /\ \A i \in 1..4 : ls[i].src = "connect"

\* once the writer of connection c is closed, the RST of disconnect is the
\* last line written to c
EndsWithReset(c) ==
    LET ls == ConnLines(c)
    IN  streams[c].encLocked =>
            /\ ls # <<>>
            /\ ls[Len(ls)].verb = "RST"
            /\ ls[Len(ls)].src = "disconnect"

\* C19: in the first script every connection begins with the lines '',
\* RST, VER, PWR, before any ANM, FRM or RGB line of that connection; on
\* disconnect RST is written before the writer is closed and is the last
\* line written to that connection.
C19_ConnectionFraming ==
    script = "gif" =>
        \A c \in 1..Len(streams) : OpensWithReset(c) /\ EndsWithReset(c)

\* the shared pixel buffer as it is when the k-th frame is added
RECURSIVE BufferAt(_, _)
BufferAt(frames, k) ==
    IF k = 0 THEN NewPixels ELSE ApplyPatch(BufferAt(frames, k - 1), frames[k])

\* C20: a Frame is a snapshot: the rows sent for the k-th frame are the
\* encoding of the shared buffer as it was when the k-th frame was added,
\* whatever the later frames cleared and patched.
C20_FrameIsSnapshot ==
    (calcFn = "onload" /\ calcOut.res = "send") =>
        \A k \in 1..Len(calcIn.gif.frames), r \in 1..ROWS :
            calcOut.lines[FrmAt(k) + r].arg =
                ExpectedRow(BufferAt(calcIn.gif.frames, k)[r], calcIn.gt)

\* two frames of different colours have been sent, and the rows of the
\* first differ from the rows of the second
C20_Witness ==
    /\ calcFn = "onload"
    /\ calcOut.res = "send"
    /\ Len(calcIn.gif.frames) = 2
    /\ calcIn.gif.frames[1].rgb # calcIn.gif.frames[2].rgb
    /\ calcOut.lines[FrmAt(1) + 1].arg # calcOut.lines[FrmAt(2) + 1].arg

====
